---- MODULE Spec2Model ----
(***************************************************************************)
(* Model of the love-judge case / hearing / verdict engine:                *)
(*   src/src/store/fileStore.ts  the in-memory dataset and its operations  *)
(*   src/src/http/server.ts      the Express route handlers                *)
(*   src/src/domain/types.ts     the judge service (mock and production)   *)
(*                                                                         *)
(* Identifiers produced by uuid() are modelled by the position of the      *)
(* record in its collection (records are never deleted, so the position is *)
(* fresh and stable).  Time is an integer clock; one tick is the 24h       *)
(* invitation lifetime.  A route handler is an operator that yields the    *)
(* dataset it leaves together with its reply (the message of the error     *)
(* thrown or sent, or "ok").                                               *)
(***************************************************************************)
EXTENDS Integers, Sequences, FiniteSets, TLC

VARIABLES
    cases,       \* data.cases       (fileStore.ts:25)
    hearings,    \* data.hearings    (fileStore.ts:26)
    statements,  \* data.statements  (fileStore.ts:27)
    evidence,    \* data.evidence    (fileStore.ts:28)
    verdicts,    \* data.verdicts    (fileStore.ts:29)
    now,         \* Date.now()
    useMock,     \* createJudgeService: deps.mock || !deps.apiKey
    inflight     \* judge requests suspended in `await judgeService.judge`

vars == <<cases, hearings, statements, evidence, verdicts, now, useMock, inflight>>

----------------------------------------------------------------------------
(* Bounds of the model *)

MaxCases == 1
MaxHearings == 2
MaxTime == 2
MaxInflight == 1
MaxOverlap == 2

(* Inputs *)

Users == {"u1", "u2", "u3"}
Owners == {"u1"}
NoUser == "none"
UnknownEmail == "nobody"
FriendInputs == {NoUser, "u2", UnknownEmail}

NoExpiry == -1
NoRound == 0

(* An optional request field: None when the field is omitted. *)
None == [some |-> FALSE]
Some(v) == [some |-> TRUE, val |-> v]

Topics == {"", "chores"}
PartiesInputs == {None, Some(<<"A", "B">>), Some(<<"A", "A">>)}
DefaultParties == {None}

RoundInputs == {NoRound, 1, 3}

StatementInputs ==
    { <<>>,
      <<[side |-> "A", narrative |-> 1], [side |-> "B", narrative |-> 3]>> }

(* Further bundles a request may hold: statements of side B only, and two  *)
(* statements of side A.                                                   *)
OneSidedStatementInputs ==
    StatementInputs
    \cup { <<[side |-> "B", narrative |-> 2]>>,
           <<[side |-> "A", narrative |-> 1], [side |-> "A", narrative |-> 2]>> }

EvidenceInputs == { None, Some(<<[side |-> "A", content_or_url |-> "e"]>>) }

(* A JSON value of the completion as far as Number() tells them apart: a   *)
(* number, or a string that is not a numeral (such as "60%").              *)
JsonNumber(n) == [type |-> "number", val |-> n]
JsonText == [type |-> "string", val |-> 0]

(* parsed.score of a completion; a field may be missing.  confidence is in *)
(* tenths.                                                                 *)
RawCompletions ==
    { [partyA_pct |-> Some(JsonNumber(150)), partyB_pct |-> Some(JsonNumber(-20)),
       confidence |-> Some(JsonNumber(-10))],
      [partyA_pct |-> Some(JsonNumber(40)), partyB_pct |-> Some(JsonNumber(60)),
       confidence |-> Some(JsonNumber(7))],
      [partyA_pct |-> Some(JsonText), partyB_pct |-> None,
       confidence |-> Some(JsonNumber(15))] }

InviteTtl == 1

----------------------------------------------------------------------------
(* Helpers *)

Max(S) == CHOOSE x \in S : \A y \in S : y <= x

Range(s) == { s[i] : i \in DOMAIN s }

RemoveAt(s, i) == [j \in 1..(Len(s) - 1) |-> IF j < i THEN s[j] ELSE s[j + 1]]

----------------------------------------------------------------------------
(* src/src/store/fileStore.ts *)

(* createCase with the invitation state set whether or not there is an     *)
(* invitee.                                                                *)
createCaseAlwaysPending(input, t) ==
    [ topic |-> input.topic,
      parties |-> IF input.parties.some /\ Len(input.parties.val) > 0
                  THEN input.parties.val
                  ELSE <<"A", "B">>,
      status |-> "pending_acceptance",
      owner_id |-> input.ownerId,
      participant_ids |->
          IF input.participantIds.some /\ Len(input.participantIds.val) > 0
          THEN {input.ownerId} \cup Range(input.participantIds.val)
          ELSE {input.ownerId},
      invited_user_id |-> input.invitedUserId,
      expires_at |-> IF input.invitedUserId # NoUser THEN t + InviteTtl ELSE NoExpiry,
      acceptance |-> "pending" ]

(* createCase: the record pushed onto data.cases.  input.parties and       *)
(* input.participantIds are optional sequences; input.invitedUserId is a   *)
(* user or NoUser (undefined).                                             *)
createCase(input, t) ==
    [ topic |-> input.topic,
      parties |-> IF input.parties.some /\ Len(input.parties.val) > 0
                  THEN input.parties.val
                  ELSE <<"A", "B">>,
      status |-> IF input.invitedUserId # NoUser THEN "pending_acceptance" ELSE "draft",
      owner_id |-> input.ownerId,
      participant_ids |->
          IF input.participantIds.some /\ Len(input.participantIds.val) > 0
          THEN {input.ownerId} \cup Range(input.participantIds.val)
          ELSE {input.ownerId},
      invited_user_id |-> input.invitedUserId,
      expires_at |-> IF input.invitedUserId # NoUser THEN t + InviteTtl ELSE NoExpiry,
      acceptance |-> IF input.invitedUserId # NoUser THEN "pending" ELSE "accepted" ]

(* A sweep that expires an invitation at its deadline already. *)
expireInvitesAtDeadline(cs, t) ==
    [ i \in DOMAIN cs |->
        IF cs[i].acceptance = "pending" /\ cs[i].expires_at # NoExpiry
           /\ cs[i].expires_at <= t
        THEN [cs[i] EXCEPT !.acceptance = "expired", !.status = "expired"]
        ELSE cs[i] ]

(* expireInvites: the sweep run by getCase and listCasesByUser. *)
expireInvites(cs, t) ==
    [ i \in DOMAIN cs |->
        IF cs[i].acceptance = "pending" /\ cs[i].expires_at # NoExpiry
           /\ cs[i].expires_at < t
        THEN [cs[i] EXCEPT !.acceptance = "expired", !.status = "expired"]
        ELSE cs[i] ]

(* listCasesByUser / getCase: what is returned, after the sweep. *)
listCasesByUser(cs, userId, t) ==
    SelectSeq(expireInvites(cs, t), LAMBDA c : userId \in c.participant_ids)

getCase(cs, caseId, t) ==
    IF caseId \in DOMAIN cs THEN Some(expireInvites(cs, t)[caseId]) ELSE None

(* acceptCase that overwrites the participants with the accepting user. *)
acceptCaseDropsParticipants(cs, caseId, userId, t) ==
    IF caseId \notin DOMAIN cs THEN [cases |-> cs, result |-> "case_not_found"]
    ELSE LET found == cs[caseId] IN
      IF found.acceptance = "rejected" THEN [cases |-> cs, result |-> "case_rejected"]
      ELSE IF found.acceptance = "accepted" THEN [cases |-> cs, result |-> "ok"]
      ELSE IF found.expires_at # NoExpiry /\ found.expires_at < t
        THEN [cases |-> [cs EXCEPT ![caseId].acceptance = "expired",
                                   ![caseId].status = "expired"],
              result |-> "case_expired"]
      ELSE IF found.invited_user_id # userId THEN [cases |-> cs, result |-> "forbidden"]
      ELSE [cases |-> [cs EXCEPT ![caseId].acceptance = "accepted",
                                 ![caseId].status = "draft",
                                 ![caseId].participant_ids = {userId}],
            result |-> "ok"]

(* acceptCase that checks the acting user before the expiry. *)
acceptCaseForbiddenFirst(cs, caseId, userId, t) ==
    IF caseId \notin DOMAIN cs THEN [cases |-> cs, result |-> "case_not_found"]
    ELSE LET found == cs[caseId] IN
      IF found.acceptance = "rejected" THEN [cases |-> cs, result |-> "case_rejected"]
      ELSE IF found.acceptance = "accepted" THEN [cases |-> cs, result |-> "ok"]
      ELSE IF found.invited_user_id # userId THEN [cases |-> cs, result |-> "forbidden"]
      ELSE IF found.expires_at # NoExpiry /\ found.expires_at < t
        THEN [cases |-> [cs EXCEPT ![caseId].acceptance = "expired",
                                   ![caseId].status = "expired"],
              result |-> "case_expired"]
      ELSE [cases |-> [cs EXCEPT ![caseId].acceptance = "accepted",
                                 ![caseId].status = "draft",
                                 ![caseId].participant_ids = found.participant_ids \cup {userId}],
            result |-> "ok"]

(* acceptCase without the check of the acting user. *)
acceptCaseByAnyone(cs, caseId, userId, t) ==
    IF caseId \notin DOMAIN cs THEN [cases |-> cs, result |-> "case_not_found"]
    ELSE LET found == cs[caseId] IN
      IF found.acceptance = "rejected" THEN [cases |-> cs, result |-> "case_rejected"]
      ELSE IF found.acceptance = "accepted" THEN [cases |-> cs, result |-> "ok"]
      ELSE IF found.expires_at # NoExpiry /\ found.expires_at < t
        THEN [cases |-> [cs EXCEPT ![caseId].acceptance = "expired",
                                   ![caseId].status = "expired"],
              result |-> "case_expired"]
      ELSE [cases |-> [cs EXCEPT ![caseId].acceptance = "accepted",
                                 ![caseId].status = "draft",
                                 ![caseId].participant_ids = found.participant_ids \cup {userId}],
            result |-> "ok"]

(* acceptCase without the early return for an accepted case. *)
acceptCaseAcceptsAgain(cs, caseId, userId, t) ==
    IF caseId \notin DOMAIN cs THEN [cases |-> cs, result |-> "case_not_found"]
    ELSE LET found == cs[caseId] IN
      IF found.acceptance = "rejected" THEN [cases |-> cs, result |-> "case_rejected"]
      ELSE IF found.expires_at # NoExpiry /\ found.expires_at < t
        THEN [cases |-> [cs EXCEPT ![caseId].acceptance = "expired",
                                   ![caseId].status = "expired"],
              result |-> "case_expired"]
      ELSE IF found.invited_user_id # userId THEN [cases |-> cs, result |-> "forbidden"]
      ELSE [cases |-> [cs EXCEPT ![caseId].acceptance = "accepted",
                                 ![caseId].status = "draft",
                                 ![caseId].participant_ids = found.participant_ids \cup {userId}],
            result |-> "ok"]

(* acceptCase: the dataset after the call and the value returned ("ok")    *)
(* or the message of the error thrown.                                     *)
acceptCase(cs, caseId, userId, t) ==
    IF caseId \notin DOMAIN cs THEN [cases |-> cs, result |-> "case_not_found"]
    ELSE LET found == cs[caseId] IN
      IF found.acceptance = "rejected" THEN [cases |-> cs, result |-> "case_rejected"]
      ELSE IF found.acceptance = "accepted" THEN [cases |-> cs, result |-> "ok"]
      ELSE IF found.expires_at # NoExpiry /\ found.expires_at < t
        THEN [cases |-> [cs EXCEPT ![caseId].acceptance = "expired",
                                   ![caseId].status = "expired"],
              result |-> "case_expired"]
      ELSE IF found.invited_user_id # userId THEN [cases |-> cs, result |-> "forbidden"]
      ELSE [cases |-> [cs EXCEPT ![caseId].acceptance = "accepted",
                                 ![caseId].status = "draft",
                                 ![caseId].participant_ids = found.participant_ids \cup {userId}],
            result |-> "ok"]

(* rejectCase open to every participant of the case. *)
rejectCaseByParticipant(cs, caseId, userId) ==
    IF caseId \notin DOMAIN cs THEN [cases |-> cs, result |-> "case_not_found"]
    ELSE IF userId \notin cs[caseId].participant_ids
         THEN [cases |-> cs, result |-> "forbidden"]
    ELSE [cases |-> [cs EXCEPT ![caseId].acceptance = "rejected",
                               ![caseId].status = "closed"],
          result |-> "ok"]

(* rejectCase *)
rejectCase(cs, caseId, userId) ==
    IF caseId \notin DOMAIN cs THEN [cases |-> cs, result |-> "case_not_found"]
    ELSE IF cs[caseId].invited_user_id # userId THEN [cases |-> cs, result |-> "forbidden"]
    ELSE [cases |-> [cs EXCEPT ![caseId].acceptance = "rejected",
                               ![caseId].status = "closed"],
          result |-> "ok"]

(* createHearing that reopens the earlier hearings of the case. *)
createHearingReopens(cs, hs, caseId, round) ==
    [ hearings |->
          Append([h \in DOMAIN hs |->
                     IF hs[h].case_id = caseId THEN [hs[h] EXCEPT !.status = "submitted"]
                     ELSE hs[h]],
                 [case_id |-> caseId, round |-> round, status |-> "submitted"]),
      cases |-> IF caseId \in DOMAIN cs
                THEN [cs EXCEPT ![caseId].status = "pending_judgement"]
                ELSE cs ]

(* createHearing: pushes the hearing (its id is its position) and sets the *)
(* case's status.                                                          *)
createHearing(cs, hs, caseId, round) ==
    [ hearings |-> Append(hs, [case_id |-> caseId, round |-> round, status |-> "submitted"]),
      cases |-> IF caseId \in DOMAIN cs
                THEN [cs EXCEPT ![caseId].status = "pending_judgement"]
                ELSE cs ]

(* saveStatements that keeps the earlier statements of the hearing. *)
saveStatementsAppends(sts, hearingId, new) == sts \o new

(* saveStatements that overwrites the whole collection. *)
saveStatementsReplacesAll(sts, hearingId, new) == new

(* saveStatements / saveEvidence: replace the records of one hearing. *)
saveStatements(sts, hearingId, new) ==
    SelectSeq(sts, LAMBDA s : s.hearing_id # hearingId) \o new

saveEvidence(evs, hearingId, new) ==
    SelectSeq(evs, LAMBDA e : e.hearing_id # hearingId) \o new

listHearings(hs, caseId) == { h \in DOMAIN hs : hs[h].case_id = caseId }

getStatements(sts, hearingId) == SelectSeq(sts, LAMBDA s : s.hearing_id = hearingId)

getEvidence(evs, hearingId) == SelectSeq(evs, LAMBDA e : e.hearing_id = hearingId)

(* getVerdict: the first stored verdict of the hearing, if any. *)
getVerdict(vs, hearingId) ==
    LET found == SelectSeq(vs, LAMBDA v : v.hearing_id = hearingId)
    IN IF Len(found) = 0 THEN None ELSE Some(Head(found))

(* saveVerdict that leaves the status of the hearing alone. *)
saveVerdictLeavesHearing(cs, hs, vs, verdict) ==
    LET h == verdict.hearing_id
    IN [ verdicts |-> Append(SelectSeq(vs, LAMBDA v : v.hearing_id # h), verdict),
         hearings |-> hs,
         cases |-> IF h \in DOMAIN hs /\ hs[h].case_id \in DOMAIN cs
                   THEN [cs EXCEPT ![hs[h].case_id].status = "decided"]
                   ELSE cs ]

(* saveVerdict that keeps the verdict a hearing already has. *)
saveVerdictKeepsFirst(cs, hs, vs, verdict) ==
    LET h == verdict.hearing_id
        hs2 == IF h \in DOMAIN hs THEN [hs EXCEPT ![h].status = "judged"] ELSE hs
    IN [ verdicts |-> IF \E i \in DOMAIN vs : vs[i].hearing_id = h
                      THEN vs ELSE Append(vs, verdict),
         hearings |-> hs2,
         cases |-> IF h \in DOMAIN hs /\ hs[h].case_id \in DOMAIN cs
                   THEN [cs EXCEPT ![hs[h].case_id].status = "decided"]
                   ELSE cs ]

(* saveVerdict that appends without removing the hearing's earlier verdict. *)
saveVerdictAppends(cs, hs, vs, verdict) ==
    LET h == verdict.hearing_id
        hs2 == IF h \in DOMAIN hs THEN [hs EXCEPT ![h].status = "judged"] ELSE hs
    IN [ verdicts |-> Append(vs, verdict),
         hearings |-> hs2,
         cases |-> IF h \in DOMAIN hs /\ hs[h].case_id \in DOMAIN cs
                   THEN [cs EXCEPT ![hs[h].case_id].status = "decided"]
                   ELSE cs ]

(* saveVerdict: upsert by hearing id, hearing judged, parent case decided. *)
saveVerdict(cs, hs, vs, verdict) ==
    LET h == verdict.hearing_id
        hs2 == IF h \in DOMAIN hs THEN [hs EXCEPT ![h].status = "judged"] ELSE hs
    IN [ verdicts |-> Append(SelectSeq(vs, LAMBDA v : v.hearing_id # h), verdict),
         hearings |-> hs2,
         cases |-> IF h \in DOMAIN hs /\ hs[h].case_id \in DOMAIN cs
                   THEN [cs EXCEPT ![hs[h].case_id].status = "decided"]
                   ELSE cs ]

----------------------------------------------------------------------------
(* src/src/domain/types.ts: the judge service *)

(* A JavaScript number: an integer of the model, or NaN. *)
Num(n) == [nan |-> FALSE, val |-> n]
NaN == [nan |-> TRUE, val |-> 0]

(* Number(v) of a JSON value. *)
Number(v) == IF v.type = "number" THEN Num(v.val) ELSE NaN

(* field ?? 0 *)
OrZero(field) == IF field.some THEN field.val ELSE JsonNumber(0)

(* Math.min(hi, Math.max(lo, x)): both yield NaN when an argument is NaN. *)
Clamp(lo, hi, x) ==
    IF x.nan THEN NaN
    ELSE IF x.val < lo THEN Num(lo) ELSE IF x.val > hi THEN Num(hi) ELSE x

(* Words of the narratives of a sequence of statements (a narrative is     *)
(* modelled by its number of words, narrative.split(/\s+/).length).        *)
RECURSIVE Words(_)
Words(sts) == IF sts = <<>> THEN 0 ELSE Head(sts).narrative + Words(Tail(sts))

(* Math.round(n / d * 100) for n >= 0, d > 0, where 2n may replace n (the  *)
(* fallback aWords = totalWords / 2).                                      *)
RoundPct(n2, d) == (100 * n2 + d) \div (2 * d)

(* defaultVerdict: the mock adjudicator; confidence in tenths. *)
defaultVerdict(hearingId, sts) ==
    LET sum == Words(sts)
        totalWords == IF sum = 0 THEN 1 ELSE sum
        aSum == Words(SelectSeq(sts, LAMBDA s : s.side = "A"))
        aWords2 == IF aSum = 0 THEN totalWords ELSE 2 * aSum
        partyA_pct == RoundPct(aWords2, totalWords)
    IN [ hearing_id |-> hearingId,
         score |-> [partyA_pct |-> Num(partyA_pct),
                    partyB_pct |-> Num(100 - partyA_pct),
                    confidence |-> Num(3)] ]

(* createJudgeService.judge, production branch: the verdict built from the *)
(* parsed completion; confidence in tenths.                                *)
parseVerdict(hearingId, parsed) ==
    [ hearing_id |-> hearingId,
      score |-> [partyA_pct |-> Clamp(0, 100, Number(OrZero(parsed.partyA_pct))),
                 partyB_pct |-> Clamp(0, 100, Number(OrZero(parsed.partyB_pct))),
                 confidence |-> Clamp(0, 10, Number(OrZero(parsed.confidence)))] ]

----------------------------------------------------------------------------
(* src/src/http/server.ts: the route handlers.  A handler is an operator   *)
(* from the dataset d (and the clock t) to the dataset it leaves and the   *)
(* reply it sends; the actions below apply the handlers to the state.      *)

Db == [cases |-> cases, hearings |-> hearings, statements |-> statements,
       evidence |-> evidence, verdicts |-> verdicts]

Outcome(d, result) == [db |-> d, result |-> result]

(* A check that lets every signed-in user pass. *)
assertSignedIn(caseItem, userId) == userId \in Users

assertParticipant(caseItem, userId) == userId \in caseItem.participant_ids

(* getCase / listCasesByUser start with the sweep. *)
swept(d, t) == [d EXCEPT !.cases = expireInvites(d.cases, t)]

(* POST /cases *)
postCases(d, t, u, topic, parties, friend) ==
    IF topic = "" THEN Outcome(d, "validation_error")
    ELSE IF friend = UnknownEmail THEN Outcome(d, "friend_not_found")
    ELSE Outcome([d EXCEPT !.cases = Append(d.cases,
                     createCase([ownerId |-> u, topic |-> topic, parties |-> parties,
                                 participantIds |-> IF friend # NoUser
                                                    THEN Some(<<friend>>) ELSE None,
                                 invitedUserId |-> friend], t))],
                 "ok")

(* GET /cases *)
getCases(d, t, u) == Outcome(swept(d, t), "ok")

(* GET /cases/:caseId *)
getCaseById(d, t, c, u) ==
    LET d1 == swept(d, t) IN
    IF c \notin DOMAIN d1.cases THEN Outcome(d1, "Case not found")
    ELSE IF ~assertParticipant(d1.cases[c], u) THEN Outcome(d1, "forbidden")
    ELSE Outcome(d1, "ok")

(* POST /cases/:caseId/accept *)
postAccept(d, t, c, u) ==
    LET r == acceptCase(d.cases, c, u, t) IN Outcome([d EXCEPT !.cases = r.cases], r.result)

(* POST /cases/:caseId/reject *)
postReject(d, c, u) ==
    LET r == rejectCase(d.cases, c, u) IN Outcome([d EXCEPT !.cases = r.cases], r.result)

(* An acceptance gate that lets pending invitations through. *)
caseClosedOrExpired(caseItem) == caseItem.acceptance \in {"rejected", "expired"}

(* An acceptance gate that stops rejected cases only. *)
caseRejected(caseItem) == caseItem.acceptance = "rejected"

(* POST /cases/:caseId/hearings: the acceptance gate *)
caseNotAccepted(caseItem) == caseItem.acceptance # "accepted"

(* A round resolution that repeats the highest round. *)
nextRoundRepeatsMax(hs, caseId, round) ==
    IF round # NoRound THEN round
    ELSE IF listHearings(hs, caseId) = {} THEN 1
    ELSE Max({ hs[h].round : h \in listHearings(hs, caseId) })

(* POST /cases/:caseId/hearings: parsed.data.round ?? (first ? 1 : max+1) *)
nextRound(hs, caseId, round) ==
    IF round # NoRound THEN round
    ELSE IF listHearings(hs, caseId) = {} THEN 1
    ELSE Max({ hs[h].round : h \in listHearings(hs, caseId) }) + 1

(* An appeal round counted from the number of hearings of the case. *)
appealNextRoundByCount(hs, caseId) == Cardinality(listHearings(hs, caseId)) + 1

(* POST .../appeal: Math.max(...rounds) + 1 *)
appealNextRound(hs, caseId) ==
    Max({ hs[h].round : h \in listHearings(hs, caseId) }) + 1

(* The stored form of the submitted statements and evidence of a hearing. *)
stampStatements(hearingId, sts) ==
    [ i \in DOMAIN sts |->
        [hearing_id |-> hearingId, side |-> sts[i].side, narrative |-> sts[i].narrative] ]

stampEvidence(hearingId, evs) ==
    [ i \in DOMAIN evs |->
        [id |-> <<hearingId, i>>, hearing_id |-> hearingId, side |-> evs[i].side,
         content_or_url |-> evs[i].content_or_url] ]

(* POST /cases/:caseId/hearings *)
postHearings(d, t, c, u, round, sts, evs) ==
    LET d1 == swept(d, t) IN
    IF c \notin DOMAIN d1.cases THEN Outcome(d1, "Case not found")
    ELSE IF ~assertParticipant(d1.cases[c], u) THEN Outcome(d1, "forbidden")
    ELSE IF caseNotAccepted(d1.cases[c]) THEN Outcome(d1, "case_not_accepted")
    ELSE IF Len(sts) = 0 THEN Outcome(d1, "validation_error")
    ELSE LET created == createHearing(d1.cases, d1.hearings, c,
                                      nextRound(d1.hearings, c, round))
             id == Len(created.hearings)
         IN Outcome([d1 EXCEPT
                        !.cases = created.cases,
                        !.hearings = created.hearings,
                        !.statements = saveStatements(d1.statements, id,
                                                      stampStatements(id, sts)),
                        !.evidence = saveEvidence(d1.evidence, id,
                                        stampEvidence(id, IF evs.some THEN evs.val
                                                          ELSE <<>>))],
                    "ok")

(* POST /cases/:caseId/hearings/:hearingId/judge, up to the await.  With   *)
(* the mock service the promise is already resolved and the handler runs   *)
(* to its end before any other request ("ok"); otherwise the request       *)
(* suspends ("await").                                                     *)
postJudge(d, t, mock, c, h, u) ==
    LET d1 == swept(d, t) IN
    IF c \notin DOMAIN d1.cases THEN Outcome(d1, "Case not found")
    ELSE IF ~assertParticipant(d1.cases[c], u) THEN Outcome(d1, "forbidden")
    ELSE IF h \notin DOMAIN d1.hearings \/ d1.hearings[h].case_id # c
         THEN Outcome(d1, "Hearing not found")
    ELSE IF mock
         THEN LET saved == saveVerdict(d1.cases, d1.hearings, d1.verdicts,
                               defaultVerdict(h, getStatements(d1.statements, h)))
              IN Outcome([d1 EXCEPT !.cases = saved.cases, !.hearings = saved.hearings,
                                    !.verdicts = saved.verdicts], "ok")
    ELSE Outcome(d1, "await")

(* ... judge, after the await: the completion arrived and was parsed. *)
judgeResolved(d, h, parsed) ==
    LET saved == saveVerdict(d.cases, d.hearings, d.verdicts, parseVerdict(h, parsed))
    IN Outcome([d EXCEPT !.cases = saved.cases, !.hearings = saved.hearings,
                         !.verdicts = saved.verdicts], "ok")

(* A catch branch that marks the hearing judged although no verdict came. *)
judgeRejectedMarksJudged(d, h) ==
    Outcome([d EXCEPT !.hearings[h].status = "judged"], "judge_failed")

(* ... judge, after the await: the adjudication call threw (no completion, *)
(* unparseable completion, upstream error); the catch answers 500.         *)
judgeRejected(d, h) == Outcome(d, "judge_failed")

(* GET /cases/:caseId/hearings/:hearingId/verdict *)
getVerdictRoute(d, t, c, h, u) ==
    LET d1 == swept(d, t) IN
    IF c \notin DOMAIN d1.cases THEN Outcome(d1, "Case not found")
    ELSE IF ~assertParticipant(d1.cases[c], u) THEN Outcome(d1, "forbidden")
    ELSE IF h \notin DOMAIN d1.hearings \/ d1.hearings[h].case_id # c
         THEN Outcome(d1, "Hearing not found")
    ELSE IF ~getVerdict(d1.verdicts, h).some THEN Outcome(d1, "Verdict not found")
    ELSE Outcome(d1, "ok")

(* POST .../appeal: the status assigned to the case after the new hearing. *)
appealStatus == "appealed"

(* POST .../appeal: updateCase is neither imported nor defined, so the     *)
(* call throws a ReferenceError after the hearing was stored and the       *)
(* status assigned, and Express answers 500 instead of 201.                *)
updateCase == "updateCase is not defined"

(* An appeal that copies the statements of the appealed hearing when the   *)
(* request has none.                                                       *)
postAppealCarriesForward(d, t, c, h, u, sts, evs) ==
    LET d1 == swept(d, t) IN
    IF c \notin DOMAIN d1.cases THEN Outcome(d1, "Case not found")
    ELSE IF ~assertParticipant(d1.cases[c], u) THEN Outcome(d1, "forbidden")
    ELSE IF h \notin DOMAIN d1.hearings \/ d1.hearings[h].case_id # c
         THEN Outcome(d1, "Hearing not found")
    ELSE LET created == createHearing(d1.cases, d1.hearings, c,
                                      appealNextRound(d1.hearings, c))
             id == Len(created.hearings)
             carried == IF sts.some THEN sts.val ELSE getStatements(d1.statements, h)
         IN Outcome([d1 EXCEPT
                        !.cases = [created.cases EXCEPT ![c].status = appealStatus],
                        !.hearings = created.hearings,
                        !.statements = saveStatements(d1.statements, id,
                                                      stampStatements(id, carried)),
                        !.evidence = IF evs.some
                                     THEN saveEvidence(d1.evidence, id,
                                                       stampEvidence(id, evs.val))
                                     ELSE d1.evidence],
                    updateCase)

(* POST /cases/:caseId/hearings/:hearingId/appeal *)
postAppeal(d, t, c, h, u, sts, evs) ==
    LET d1 == swept(d, t) IN
    IF c \notin DOMAIN d1.cases THEN Outcome(d1, "Case not found")
    ELSE IF ~assertParticipant(d1.cases[c], u) THEN Outcome(d1, "forbidden")
    ELSE IF h \notin DOMAIN d1.hearings \/ d1.hearings[h].case_id # c
         THEN Outcome(d1, "Hearing not found")
    ELSE LET created == createHearing(d1.cases, d1.hearings, c,
                                      appealNextRound(d1.hearings, c))
             id == Len(created.hearings)
         IN Outcome([d1 EXCEPT
                        !.cases = [created.cases EXCEPT ![c].status = appealStatus],
                        !.hearings = created.hearings,
                        !.statements = IF sts.some
                                       THEN saveStatements(d1.statements, id,
                                                           stampStatements(id, sts.val))
                                       ELSE d1.statements,
                        !.evidence = IF evs.some
                                     THEN saveEvidence(d1.evidence, id,
                                                       stampEvidence(id, evs.val))
                                     ELSE d1.evidence],
                    updateCase)

----------------------------------------------------------------------------
(* The state machine *)

Init ==
    /\ cases = <<>>
    /\ hearings = <<>>
    /\ statements = <<>>
    /\ evidence = <<>>
    /\ verdicts = <<>>
    /\ now = 0
    /\ useMock \in BOOLEAN
    /\ inflight = <<>>

(* The request ran to its end and leaves the dataset out.db. *)
Commit(out) ==
    /\ Len(out.db.cases) <= MaxCases
    /\ Len(out.db.hearings) <= MaxHearings
    /\ cases' = out.db.cases
    /\ hearings' = out.db.hearings
    /\ statements' = out.db.statements
    /\ evidence' = out.db.evidence
    /\ verdicts' = out.db.verdicts

PostCases(u, topic, parties, friend) ==
    /\ Commit(postCases(Db, now, u, topic, parties, friend))
    /\ UNCHANGED <<now, useMock, inflight>>

GetCases(u) ==
    /\ Commit(getCases(Db, now, u))
    /\ UNCHANGED <<now, useMock, inflight>>

GetCaseById(c, u) ==
    /\ Commit(getCaseById(Db, now, c, u))
    /\ UNCHANGED <<now, useMock, inflight>>

PostAccept(c, u) ==
    /\ Commit(postAccept(Db, now, c, u))
    /\ UNCHANGED <<now, useMock, inflight>>

PostReject(c, u) ==
    /\ Commit(postReject(Db, c, u))
    /\ UNCHANGED <<now, useMock, inflight>>

PostHearings(c, u, round, sts, evs) ==
    /\ Commit(postHearings(Db, now, c, u, round, sts, evs))
    /\ UNCHANGED <<now, useMock, inflight>>

(* A judge request that does not suspend. *)
PostJudge(c, h, u) ==
    /\ postJudge(Db, now, useMock, c, h, u).result # "await"
    /\ Commit(postJudge(Db, now, useMock, c, h, u))
    /\ UNCHANGED <<now, useMock, inflight>>

(* A judge request that suspends in the adjudication call. *)
JudgeAwait(c, h, u, cap) ==
    /\ postJudge(Db, now, useMock, c, h, u).result = "await"
    /\ Len(inflight) < cap
    /\ cases' = postJudge(Db, now, useMock, c, h, u).db.cases
    /\ inflight' = Append(inflight, [hearing_id |-> h])
    /\ UNCHANGED <<hearings, statements, evidence, verdicts, now, useMock>>

(* The adjudication call of a suspended request returned. *)
JudgeResolve(i, parsed) ==
    /\ i \in DOMAIN inflight
    /\ Commit(judgeResolved(Db, inflight[i].hearing_id, parsed))
    /\ inflight' = RemoveAt(inflight, i)
    /\ UNCHANGED <<now, useMock>>

(* The adjudication call of a suspended request threw (status 500). *)
JudgeReject(i) ==
    /\ i \in DOMAIN inflight
    /\ Commit(judgeRejected(Db, inflight[i].hearing_id))
    /\ inflight' = RemoveAt(inflight, i)
    /\ UNCHANGED <<now, useMock>>

GetVerdictRoute(c, h, u) ==
    /\ Commit(getVerdictRoute(Db, now, c, h, u))
    /\ UNCHANGED <<now, useMock, inflight>>

PostAppeal(c, h, u, sts, evs) ==
    /\ Commit(postAppeal(Db, now, c, h, u, sts, evs))
    /\ UNCHANGED <<now, useMock, inflight>>

(* Time passes. *)
Tick ==
    /\ now < MaxTime
    /\ now' = now + 1
    /\ UNCHANGED <<cases, hearings, statements, evidence, verdicts, useMock, inflight>>

CaseIds == 1..MaxCases
HearingIds == 1..MaxHearings
Optional(S) == {None} \cup { Some(s) : s \in S }

(* The requests of the server: rounds, partiesIn and stsIn are the values   *)
(* the requests may hold, cap the number of judge requests that may be     *)
(* suspended at once.                                                      *)
NextWith(rounds, partiesIn, stsIn, cap) ==
    \/ \E u \in Owners, topic \in Topics, parties \in partiesIn, friend \in FriendInputs :
          PostCases(u, topic, parties, friend)
    \/ \E u \in Users : GetCases(u)
    \/ \E c \in CaseIds, u \in Users : GetCaseById(c, u)
    \/ \E c \in CaseIds, u \in Users : PostAccept(c, u)
    \/ \E c \in CaseIds, u \in Users : PostReject(c, u)
    \/ \E c \in CaseIds, u \in Users, round \in rounds, sts \in stsIn,
          evs \in EvidenceInputs : PostHearings(c, u, round, sts, evs)
    \/ \E c \in CaseIds, h \in HearingIds, u \in Users : PostJudge(c, h, u)
    \/ \E c \in CaseIds, h \in HearingIds, u \in Users : JudgeAwait(c, h, u, cap)
    \/ \E i \in 1..cap, parsed \in RawCompletions : JudgeResolve(i, parsed)
    \/ \E i \in 1..cap : JudgeReject(i)
    \/ \E c \in CaseIds, h \in HearingIds, u \in Users : GetVerdictRoute(c, h, u)
    \/ \E c \in CaseIds, h \in HearingIds, u \in Users, sts \in Optional(stsIn),
          evs \in EvidenceInputs : PostAppeal(c, h, u, sts, evs)
    \/ Tick

(* Requests that leave the round to the server and the parties to the default. *)
Next == NextWith({NoRound}, DefaultParties, StatementInputs, MaxInflight)

Spec == Init /\ [][Next]_vars

(* Requests that may also name the round of a new hearing. *)
NextRounds == NextWith(RoundInputs, DefaultParties, StatementInputs, MaxInflight)

SpecRounds == Init /\ [][NextRounds]_vars

(* Requests that may also supply the parties of a new case. *)
NextParties == NextWith({NoRound}, PartiesInputs, StatementInputs, MaxInflight)

SpecParties == Init /\ [][NextParties]_vars

(* Requests whose statements may come from one side only. *)
NextStatements == NextWith({NoRound}, DefaultParties, OneSidedStatementInputs, MaxInflight)

SpecStatements == Init /\ [][NextStatements]_vars

(* Judge requests that overlap. *)
NextOverlap == NextWith({NoRound}, DefaultParties, StatementInputs, MaxOverlap)

SpecOverlap == Init /\ [][NextOverlap]_vars

----------------------------------------------------------------------------
(* Properties *)

ValidTopics == Topics \ {""}
RealFriends == FriendInputs \ {NoUser, UnknownEmail}

(* The hearings of case c, in creation order. *)
HearingsOf(hs, c) == SelectSeq(hs, LAMBDA h : h.case_id = c)

(* The number of verdicts stored for hearing h. *)
VerdictCount(vs, h) == Len(SelectSeq(vs, LAMBDA v : v.hearing_id = h))

(* The case a successful POST /cases has just stored. *)
Created(out) == out.db.cases[Len(out.db.cases)]

(* C1: a case created with an invited user is pending_acceptance /         *)
(* pending with participant set {owner}, and the invited user stays out of *)
(* the participant set until acceptCase by that user has succeeded (so     *)
(* while the acceptance is pending or expired).                            *)
C1_InviteeJoinsOnAcceptance ==
    \A c \in DOMAIN cases :
        /\ (cases[c].invited_user_id # NoUser /\ cases[c].acceptance = "pending")
           => /\ cases[c].status = "pending_acceptance"
              /\ cases[c].participant_ids = {cases[c].owner_id}
        /\ (cases[c].invited_user_id # NoUser
              /\ cases[c].acceptance \in {"pending", "expired"}
              /\ cases[c].invited_user_id # cases[c].owner_id)
           => cases[c].invited_user_id \notin cases[c].participant_ids

(* C2: a case created without an invitee is accepted / draft with          *)
(* participant set {owner}, no invited user and no expiry.                 *)
C2_NoInviteeStartsAccepted ==
    \A u \in Owners, topic \in ValidTopics, parties \in PartiesInputs :
        LET out == postCases(Db, now, u, topic, parties, NoUser) IN
        /\ out.result = "ok"
        /\ Len(out.db.cases) = Len(cases) + 1
        /\ Created(out).acceptance = "accepted"
        /\ Created(out).status = "draft"
        /\ Created(out).participant_ids = {u}
        /\ Created(out).invited_user_id = NoUser
        /\ Created(out).expires_at = NoExpiry

C2_Witness ==
    \E c \in DOMAIN cases :
        /\ cases[c].invited_user_id = NoUser
        /\ cases[c].status = "draft"
        /\ cases[c].acceptance = "accepted"

(* C3: on a pending case, acceptCase by the invited user before the expiry *)
(* sets acceptance=accepted, status=draft and adds the user to the         *)
(* participants, keeping the previous ones.                                *)
C3_AcceptByInvitee ==
    \A c \in DOMAIN cases :
        (cases[c].acceptance = "pending" /\ now <= cases[c].expires_at)
        => LET u == cases[c].invited_user_id
               out == postAccept(Db, now, c, u)
           IN /\ out.result = "ok"
              /\ out.db.cases[c].acceptance = "accepted"
              /\ out.db.cases[c].status = "draft"
              /\ out.db.cases[c].participant_ids = cases[c].participant_ids \cup {u}

C3_Witness ==
    \E c \in DOMAIN cases :
        /\ cases[c].invited_user_id # NoUser
        /\ cases[c].acceptance = "accepted"
        /\ cases[c].status = "draft"
        /\ cases[c].invited_user_id \in cases[c].participant_ids
        /\ now <= cases[c].expires_at

C5_SubmitNeedsAcceptance ==
    \A c \in DOMAIN cases, round \in RoundInputs, sts \in StatementInputs,
       evs \in EvidenceInputs :
        cases[c].acceptance # "accepted"
        => /\ \A u \in Users :
                postHearings(Db, now, c, u, round, sts, evs).db.hearings = hearings
           /\ \A u \in {cases[c].owner_id, cases[c].invited_user_id} :
             LET out == postHearings(Db, now, c, u, round, sts, evs) IN
             /\ out.result = "case_not_accepted"
             /\ out.db.hearings = hearings
             /\ out.db.statements = statements
             /\ out.db.evidence = evidence
             /\ out.db.cases[c].acceptance # "accepted"
             /\ out.db.cases[c].status = expireInvites(cases, now)[c].status
             /\ (cases[c].status # "pending_judgement"
                   => out.db.cases[c].status # "pending_judgement")

C5_Witness ==
    \E c \in DOMAIN cases :
        /\ cases[c].acceptance = "rejected"
        /\ cases[c].status = "closed"
        /\ postHearings(Db, now, c, cases[c].invited_user_id, NoRound,
                        <<[side |-> "A", narrative |-> 1]>>, None).result
             = "case_not_accepted"

(* C6: when no request names a round, the rounds of the hearings of a      *)
(* case, in creation order, are 1, 2, 3, ...                               *)
C6_RoundsCountUp ==
    \A c \in CaseIds :
        \A i \in DOMAIN HearingsOf(hearings, c) : HearingsOf(hearings, c)[i].round = i

C6_Witness ==
    \E c \in CaseIds :
        /\ Len(HearingsOf(hearings, c)) >= 2
        /\ HearingsOf(hearings, c)[1].round = 1
        /\ HearingsOf(hearings, c)[2].round = 2

(* C7: an appeal by a participant on any hearing of the case stores a new  *)
(* hearing with round = (previous max round of the case) + 1 and           *)
(* status=submitted and leaves Case.status = appealed, which is what a     *)
(* following getCase returns.                                              *)
C7_AppealOpensNextRound ==
    \A c \in DOMAIN cases, h \in DOMAIN hearings, u \in Users,
       sts \in Optional(StatementInputs), evs \in EvidenceInputs :
        (hearings[h].case_id = c /\ u \in cases[c].participant_ids)
        => LET out == postAppeal(Db, now, c, h, u, sts, evs)
               id == Len(hearings) + 1
               read == getCaseById(out.db, now, c, u)
           IN /\ Len(out.db.hearings) = id
              /\ out.db.hearings[id].case_id = c
              /\ out.db.hearings[id].status = "submitted"
              /\ \E m \in listHearings(hearings, c) :
                    /\ \A k \in listHearings(hearings, c) :
                          hearings[k].round <= hearings[m].round
                    /\ out.db.hearings[id].round = hearings[m].round + 1
              /\ out.db.cases[c].status = "appealed"
              /\ read.result = "ok"
              /\ read.db.cases[c].status = "appealed"

C7_Witness ==
    \E c \in DOMAIN cases :
        /\ cases[c].status = "appealed"
        /\ Len(HearingsOf(hearings, c)) >= 2
        /\ hearings[Len(hearings)].case_id = c
        /\ hearings[Len(hearings)].status = "submitted"
        /\ \A k \in listHearings(hearings, c) :
              hearings[k].round <= hearings[Len(hearings)].round

(* C8: an appeal by a participant that names a hearing of the case, with a *)
(* well-formed body, succeeds; it never ends in an internal error.         *)
C8_AppealSucceeds ==
    \A c \in DOMAIN cases, h \in DOMAIN hearings, u \in Users,
       sts \in Optional(StatementInputs), evs \in EvidenceInputs :
        (hearings[h].case_id = c /\ u \in cases[c].participant_ids)
        => postAppeal(Db, now, c, h, u, sts, evs).result = "ok"

(* C9: recording verdicts for a hearing is an upsert: at most one verdict  *)
(* is stored per hearing, and after verdicts were recorded for a hearing   *)
(* one after the other exactly the last is stored, the hearing is judged   *)
(* and its case decided.                                                   *)
C9_VerdictUpsert ==
    /\ \A h \in HearingIds : VerdictCount(verdicts, h) <= 1
    /\ \A h \in DOMAIN hearings, p1 \in RawCompletions, p2 \in RawCompletions :
          LET first == judgeResolved(Db, h, p1)
              last == judgeResolved(first.db, h, p2)
          IN /\ VerdictCount(first.db.verdicts, h) = 1
             /\ getVerdict(first.db.verdicts, h) = Some(parseVerdict(h, p1))
             /\ first.db.hearings[h].status = "judged"
             /\ first.db.cases[hearings[h].case_id].status = "decided"
             /\ VerdictCount(last.db.verdicts, h) = 1
             /\ getVerdict(last.db.verdicts, h) = Some(parseVerdict(h, p2))
             /\ last.db.hearings[h].status = "judged"
             /\ last.db.cases[hearings[h].case_id].status = "decided"

C9_Witness ==
    \E h \in DOMAIN hearings :
        /\ VerdictCount(verdicts, h) = 1
        /\ hearings[h].status = "judged"
        /\ cases[hearings[h].case_id].status = "decided"
        /\ \E p \in RawCompletions : getVerdict(verdicts, h) = Some(parseVerdict(h, p))

(* C10: submitHearing and appeal leave every earlier hearing as it was:    *)
(* its round and status, its statements and evidence, and its verdict.     *)
HearingRecordsKept(out) ==
    \A h \in DOMAIN hearings :
        /\ h \in DOMAIN out.db.hearings
        /\ out.db.hearings[h] = hearings[h]
        /\ getStatements(out.db.statements, h) = getStatements(statements, h)
        /\ getEvidence(out.db.evidence, h) = getEvidence(evidence, h)
        /\ getVerdict(out.db.verdicts, h) = getVerdict(verdicts, h)

C10_EarlierHearingsKept ==
    \A c \in CaseIds, u \in Users, evs \in EvidenceInputs :
        /\ \A round \in RoundInputs, sts \in StatementInputs :
              HearingRecordsKept(postHearings(Db, now, c, u, round, sts, evs))
        /\ \A h \in HearingIds, sts \in Optional(StatementInputs) :
              HearingRecordsKept(postAppeal(Db, now, c, h, u, sts, evs))

C10_Witness ==
    /\ Len(hearings) >= 2
    /\ hearings[1].status = "judged"
    /\ getVerdict(verdicts, 1).some
    /\ Len(getStatements(statements, 1)) > 0
    /\ Len(getEvidence(evidence, 1)) > 0
    /\ hearings[2].status = "submitted"
    /\ Len(getStatements(statements, 2)) > 0

(* C11: every stored verdict has 0 <= partyA_pct, partyB_pct <= 100 and    *)
(* 0 <= confidence <= 1 (10 tenths), whatever the completion held.         *)
InRange(lo, hi, x) == ~x.nan /\ lo <= x.val /\ x.val <= hi

C11_StoredScoresInRange ==
    \A i \in DOMAIN verdicts :
        /\ InRange(0, 100, verdicts[i].score.partyA_pct)
        /\ InRange(0, 100, verdicts[i].score.partyB_pct)
        /\ InRange(0, 10, verdicts[i].score.confidence)

(* C12: Case.status changes only by pending_acceptance -> draft, expired   *)
(* or closed, draft -> pending_judgement, pending_judgement -> decided,    *)
(* decided -> appealed and appealed -> pending_judgement.                  *)
StatusTransitions ==
    { <<"pending_acceptance", "draft">>, <<"pending_acceptance", "expired">>,
      <<"pending_acceptance", "closed">>, <<"draft", "pending_judgement">>,
      <<"pending_judgement", "decided">>, <<"decided", "appealed">>,
      <<"appealed", "pending_judgement">> }

C12_StatusTransitions ==
    [][\A c \in DOMAIN cases :
          \/ cases'[c].status = cases[c].status
          \/ <<cases[c].status, cases'[c].status>> \in StatusTransitions]_vars

(* C13: expired and closed are terminal: once the status of a case is      *)
(* expired or closed, no step changes its status or its acceptance.        *)
TerminalStatuses == {"expired", "closed"}

C13_TerminalStatuses ==
    [][\A c \in DOMAIN cases :
          cases[c].status \in TerminalStatuses
          => /\ cases'[c].status = cases[c].status
             /\ cases'[c].acceptance = cases[c].acceptance]_vars

(* C14: rejectCase succeeds only for the invited user and then sets        *)
(* acceptance=rejected, status=closed and nothing else; for any other user *)
(* (every user when the case has no invitee) it fails with Forbidden, for  *)
(* an unknown case with NotFound, and the dataset is left as it was.       *)
C14_RejectByInviteeOnly ==
    \A c \in CaseIds, u \in Users :
        LET out == postReject(Db, c, u) IN
        IF c \notin DOMAIN cases
        THEN out.result = "case_not_found" /\ out.db = Db
        ELSE IF u # cases[c].invited_user_id
        THEN out.result = "forbidden" /\ out.db = Db
        ELSE /\ out.result = "ok"
             /\ out.db = [Db EXCEPT !.cases[c].acceptance = "rejected",
                                    !.cases[c].status = "closed"]

C14_Witness ==
    \E c \in DOMAIN cases :
        /\ cases[c].acceptance = "rejected"
        /\ cases[c].status = "closed"
        /\ postReject(Db, c, cases[c].owner_id).result = "forbidden"
        /\ postReject(Db, c, cases[c].invited_user_id).result = "ok"

(* C15: acceptCase on an accepted case returns the case without error and  *)
(* changes nothing, whatever the status has become and whoever calls;      *)
(* acceptCase on a rejected case fails with AlreadyRejected and changes    *)
(* nothing.                                                                *)
C15_AcceptIdempotent ==
    \A c \in DOMAIN cases, u \in Users :
        LET out == postAccept(Db, now, c, u) IN
        /\ cases[c].acceptance = "accepted" => (out.result = "ok" /\ out.db = Db)
        /\ cases[c].acceptance = "rejected"
             => (out.result = "case_rejected" /\ out.db = Db)

C15_Witness ==
    \E c \in DOMAIN cases :
        /\ cases[c].invited_user_id # NoUser
        /\ cases[c].acceptance = "accepted"
        /\ cases[c].status = "decided"
        /\ postAccept(Db, now, c, cases[c].invited_user_id).result = "ok"

(* The replies to the requests user u can make on case c: submitHearing,   *)
(* appeal, judge, read of the case and read of a verdict.                  *)
RequestsOn(c, u) ==
    { postHearings(Db, now, c, u, round, sts, evs) :
          round \in RoundInputs, sts \in StatementInputs, evs \in EvidenceInputs }
    \cup { postAppeal(Db, now, c, h, u, sts, evs) :
              h \in HearingIds, sts \in Optional(StatementInputs), evs \in EvidenceInputs }
    \cup { postJudge(Db, now, useMock, c, h, u) : h \in HearingIds }
    \cup { getVerdictRoute(Db, now, c, h, u) : h \in HearingIds }
    \cup { getCaseById(Db, now, c, u) }

Outsiders(c) == Users \ cases[c].participant_ids

(* C16 as stated: a request on a case by a user outside its participants   *)
(* fails with Forbidden, changes no hearing, statement, evidence or        *)
(* verdict and does not change the status of the case.                     *)
C16_OutsiderChangesNothing ==
    \A c \in DOMAIN cases : \A u \in Outsiders(c) :
        \A out \in RequestsOn(c, u) :
            /\ out.result = "forbidden"
            /\ out.db.hearings = hearings
            /\ out.db.statements = statements
            /\ out.db.evidence = evidence
            /\ out.db.verdicts = verdicts
            /\ out.db.cases[c].status = cases[c].status

(* C16, amended: such a request fails with Forbidden and changes no        *)
(* hearing, statement, evidence or verdict; the cases are left as the      *)
(* expiry sweep of the read leaves them, so the only status change is      *)
(* pending_acceptance -> expired of an overdue invitation.                 *)
C16_OutsiderForbidden ==
    \A c \in DOMAIN cases : \A u \in Outsiders(c) :
        \A out \in RequestsOn(c, u) :
            /\ out.result = "forbidden"
            /\ out.db = [Db EXCEPT !.cases = expireInvites(cases, now)]
            /\ \/ out.db.cases[c].status = cases[c].status
               \/ /\ cases[c].status = "pending_acceptance"
                  /\ cases[c].acceptance = "pending"
                  /\ cases[c].expires_at < now
                  /\ out.db.cases[c].status = "expired"

C16_Witness ==
    \E c \in DOMAIN cases, h \in DOMAIN hearings :
        /\ hearings[h].case_id = c
        /\ getVerdict(verdicts, h).some
        /\ \E u \in Outsiders(c) :
              /\ getVerdictRoute(Db, now, c, h, u).result = "forbidden"
              /\ postJudge(Db, now, useMock, c, h, u).result = "forbidden"

(* C17: when the adjudication call of a judge request fails, no verdict is *)
(* stored or replaced, the hearing and the case keep their status (a       *)
(* hearing not yet judged stays submitted), and a later judge request on   *)
(* the same hearing is accepted and, once adjudicated, stores its verdict. *)
C17_FailedJudgeChangesNothing ==
    \A i \in DOMAIN inflight :
        LET h == inflight[i].hearing_id
            c == hearings[h].case_id
            out == judgeRejected(Db, h)
        IN /\ out.result = "judge_failed"
           /\ out.db.verdicts = verdicts
           /\ out.db.hearings = hearings
           /\ out.db.cases = cases
           /\ \A u \in cases[c].participant_ids :
                 /\ postJudge(out.db, now, useMock, c, h, u).result = "await"
                 /\ postJudge(out.db, now, useMock, c, h, u).db = swept(out.db, now)
                 /\ postJudge(out.db, now, useMock, c, h, u).db.cases[c] = cases[c]
           /\ \A parsed \in RawCompletions :
                 LET retry == judgeResolved(out.db, h, parsed) IN
                 /\ retry.result = "ok"
                 /\ getVerdict(retry.db.verdicts, h) = Some(parseVerdict(h, parsed))
                 /\ retry.db.hearings[h].status = "judged"

C17_Witness ==
    \E i \in DOMAIN inflight :
        /\ hearings[inflight[i].hearing_id].status = "submitted"
        /\ ~getVerdict(verdicts, inflight[i].hearing_id).some
        /\ judgeRejected(Db, inflight[i].hearing_id).result = "judge_failed"

(* C18: every stored case has exactly two parties, one of side A and one   *)
(* of side B (a request whose parties are not such a pair is refused).     *)
C18_PartiesAreAAndB ==
    \A c \in DOMAIN cases :
        /\ Len(cases[c].parties) = 2
        /\ Range(cases[c].parties) = {"A", "B"}

(* C19: no case returned by getCase or listCasesByUser is pending with an  *)
(* expiry earlier than now: the sweep first makes such a case              *)
(* acceptance=expired, status=expired.  The sweep changes no other case    *)
(* (accepted, rejected, expired, or pending and not overdue) and no other  *)
(* field, and a second sweep changes nothing.                              *)
Overdue(caseItem, t) ==
    caseItem.acceptance = "pending" /\ caseItem.expires_at # NoExpiry
    /\ caseItem.expires_at < t

C19_LazyExpirySweep ==
    LET sweptCases == expireInvites(cases, now) IN
    /\ \A c \in DOMAIN cases :
          /\ getCase(cases, c, now).some
          /\ ~Overdue(getCase(cases, c, now).val, now)
          /\ getCase(cases, c, now).val = sweptCases[c]
          /\ getCaseById(Db, now, c, cases[c].owner_id).db.cases = sweptCases
          /\ IF Overdue(cases[c], now)
             THEN sweptCases[c] = [cases[c] EXCEPT !.acceptance = "expired",
                                                   !.status = "expired"]
             ELSE sweptCases[c] = cases[c]
    /\ \A u \in Users :
          /\ \A i \in DOMAIN listCasesByUser(cases, u, now) :
                ~Overdue(listCasesByUser(cases, u, now)[i], now)
          /\ getCases(Db, now, u).db.cases = sweptCases
    /\ expireInvites(sweptCases, now) = sweptCases

C19_Witness ==
    \E c \in DOMAIN cases :
        /\ Overdue(cases[c], now)
        /\ getCase(cases, c, now).val.acceptance = "expired"
        /\ getCase(cases, c, now).val.status = "expired"
        /\ Len(listCasesByUser(cases, cases[c].owner_id, now)) > 0

(* C20: saving statements for a hearing id twice leaves exactly the second *)
(* set retrievable for that hearing and the statements of every other      *)
(* hearing as they were; saveEvidence does the same for evidence.          *)
ResubmittedStatements == StatementInputs \cup { <<[side |-> "B", narrative |-> 2]>> }
ResubmittedEvidence ==
    { <<>>, <<[side |-> "A", content_or_url |-> "e"]>>,
      <<[side |-> "B", content_or_url |-> "f"], [side |-> "A", content_or_url |-> "g"]>> }

C20_ResubmitReplaces ==
    \A h \in HearingIds :
        /\ \A s1 \in ResubmittedStatements, s2 \in ResubmittedStatements :
              LET once == saveStatements(statements, h, stampStatements(h, s1))
                  twice == saveStatements(once, h, stampStatements(h, s2))
              IN /\ getStatements(once, h) = stampStatements(h, s1)
                 /\ getStatements(twice, h) = stampStatements(h, s2)
                 /\ \A k \in HearingIds \ {h} :
                       getStatements(twice, k) = getStatements(statements, k)
        /\ \A e1 \in ResubmittedEvidence, e2 \in ResubmittedEvidence :
              LET once == saveEvidence(evidence, h, stampEvidence(h, e1))
                  twice == saveEvidence(once, h, stampEvidence(h, e2))
              IN /\ getEvidence(once, h) = stampEvidence(h, e1)
                 /\ getEvidence(twice, h) = stampEvidence(h, e2)
                 /\ \A k \in HearingIds \ {h} :
                       getEvidence(twice, k) = getEvidence(evidence, k)

C20_Witness ==
    /\ \A h \in HearingIds :
          Len(getStatements(statements, h)) > 0 /\ Len(getEvidence(evidence, h)) > 0
    /\ \E s \in ResubmittedStatements :
          LET saved == saveStatements(statements, 1, stampStatements(1, s)) IN
          /\ getStatements(saved, 1) # getStatements(statements, 1)
          /\ Len(getStatements(saved, 1)) > 0
          /\ Len(saved) < Len(statements) + Len(s)

(* C21: the mock adjudicator gives side A its share of the narrative words *)
(* of the hearing, rounded to a whole percent, and side B the rest, also   *)
(* when only one side has statements; with no words at all any split that  *)
(* sums to 100 is accepted.                                                *)
ShareOfA(sts) == RoundPct(2 * Words(SelectSeq(sts, LAMBDA s : s.side = "A")), Words(sts))

C21_MockSharesByLength ==
    \A h \in DOMAIN hearings :
        LET sts == getStatements(statements, h)
            score == defaultVerdict(h, sts).score
        IN /\ InRange(0, 100, score.partyA_pct)
           /\ score.partyB_pct = Num(100 - score.partyA_pct.val)
           /\ Words(sts) > 0 => score.partyA_pct = Num(ShareOfA(sts))

(* C22: no hearing exists for a case whose acceptance is pending or        *)
(* expired: a case that has a hearing is accepted, or was accepted and     *)
(* then rejected, and while the acceptance is pending or expired neither   *)
(* submitHearing nor appeal creates a hearing.                             *)
C22_HearingsNeedAcceptance ==
    \A c \in DOMAIN cases :
        /\ listHearings(hearings, c) # {}
             => cases[c].acceptance \in {"accepted", "rejected"}
        /\ cases[c].acceptance \in {"pending", "expired"}
             => \A u \in Users, evs \in EvidenceInputs :
                   /\ \A round \in RoundInputs, sts \in StatementInputs :
                         postHearings(Db, now, c, u, round, sts, evs).db.hearings
                           = hearings
                   /\ \A h \in HearingIds, sts \in Optional(StatementInputs) :
                         postAppeal(Db, now, c, h, u, sts, evs).db.hearings = hearings

C22_Witness ==
    \E c \in DOMAIN cases :
        /\ cases[c].invited_user_id # NoUser
        /\ cases[c].acceptance = "accepted"
        /\ Cardinality(listHearings(hearings, c)) >= 2
        /\ cases[c].status = "appealed"

(* C23: a hearing, once created, keeps its case and its round, and its     *)
(* status only moves from submitted to judged: a judged hearing stays      *)
(* judged when it is judged again or appealed.                             *)
C23_HearingImmutable ==
    [][\A h \in DOMAIN hearings :
          /\ h \in DOMAIN hearings'
          /\ hearings'[h].case_id = hearings[h].case_id
          /\ hearings'[h].round = hearings[h].round
          /\ \/ hearings'[h].status = hearings[h].status
             \/ hearings[h].status = "submitted" /\ hearings'[h].status = "judged"]_vars

C23_Witness ==
    \E h \in DOMAIN hearings, k \in DOMAIN hearings :
        /\ hearings[h].case_id = hearings[k].case_id
        /\ hearings[h].status = "judged"
        /\ hearings[k].status = "submitted"
        /\ hearings[k].round > hearings[h].round
        /\ cases[hearings[h].case_id].status = "appealed"
        /\ getVerdict(verdicts, h).some

(* C24: whenever the status of a case is decided, its hearing of the       *)
(* highest round is judged and has a stored verdict.                       *)
LatestHearings(c) ==
    { h \in listHearings(hearings, c) :
        \A k \in listHearings(hearings, c) : hearings[k].round <= hearings[h].round }

C24_DecidedMeansLatestJudged ==
    \A c \in DOMAIN cases :
        cases[c].status = "decided"
        => \A h \in LatestHearings(c) :
              hearings[h].status = "judged" /\ getVerdict(verdicts, h).some

(* C25: with judge requests that overlap, also on the same hearing, and    *)
(* are interleaved with any other request, at most one verdict is stored   *)
(* per hearing, and whenever an adjudication call returns, the verdict     *)
(* stored for its hearing from then on is the one it returned (so the call *)
(* that completes last wins).                                              *)
C25_LastCompletionWins ==
    /\ [](\A h \in HearingIds : VerdictCount(verdicts, h) <= 1)
    /\ [][\A i \in DOMAIN inflight, parsed \in RawCompletions :
             JudgeResolve(i, parsed)
             => /\ VerdictCount(verdicts', inflight[i].hearing_id) = 1
                /\ getVerdict(verdicts', inflight[i].hearing_id)
                     = Some(parseVerdict(inflight[i].hearing_id, parsed))
                /\ \A k \in HearingIds \ {inflight[i].hearing_id} :
                      getVerdict(verdicts', k) = getVerdict(verdicts, k)]_vars

C25_Witness ==
    /\ Len(inflight) = 2
    /\ inflight[1].hearing_id = inflight[2].hearing_id
    /\ getVerdict(verdicts, inflight[1].hearing_id).some
    /\ Len(hearings) = 2
    /\ cases[hearings[inflight[1].hearing_id].case_id].status = "appealed"

(* C26: the hearing an appeal creates holds exactly the statements and the *)
(* evidence of the request, and none when the request omits them; nothing  *)
(* is copied from the appealed hearing.                                    *)
C26_AppealCarriesNothing ==
    \A c \in DOMAIN cases, h \in DOMAIN hearings, u \in Users,
       sts \in Optional(OneSidedStatementInputs), evs \in EvidenceInputs :
        (hearings[h].case_id = c /\ u \in cases[c].participant_ids)
        => LET out == postAppeal(Db, now, c, h, u, sts, evs)
               id == Len(hearings) + 1
           IN /\ Len(out.db.hearings) = id
              /\ getStatements(out.db.statements, id)
                   = (IF sts.some THEN stampStatements(id, sts.val) ELSE <<>>)
              /\ getEvidence(out.db.evidence, id)
                   = (IF evs.some THEN stampEvidence(id, evs.val) ELSE <<>>)

C26_Witness ==
    \E h \in DOMAIN hearings, k \in DOMAIN hearings :
        /\ hearings[h].case_id = hearings[k].case_id
        /\ hearings[k].round > hearings[h].round
        /\ cases[hearings[k].case_id].status = "appealed"
        /\ Len(getStatements(statements, h)) > 0
        /\ Len(getEvidence(evidence, h)) > 0
        /\ Len(getStatements(statements, k)) = 0
        /\ Len(getEvidence(evidence, k)) = 0

(* C27: every hearing has at most one statement of side A and at most one  *)
(* of side B.                                                              *)
C27_OneStatementPerSide ==
    \A h \in DOMAIN hearings, side \in {"A", "B"} :
        Len(SelectSeq(getStatements(statements, h), LAMBDA s : s.side = side)) <= 1

(* C28: a hearing is judged if and only if a verdict is stored for it, and *)
(* every stored verdict refers to an existing hearing.                     *)
C28_JudgedIffVerdict ==
    /\ \A h \in DOMAIN hearings :
          hearings[h].status = "judged" <=> getVerdict(verdicts, h).some
    /\ \A i \in DOMAIN verdicts : verdicts[i].hearing_id \in DOMAIN hearings

C28_Witness ==
    \E h \in DOMAIN hearings, k \in DOMAIN hearings :
        /\ hearings[h].status = "judged"
        /\ getVerdict(verdicts, h).some
        /\ hearings[k].status = "submitted"
        /\ ~getVerdict(verdicts, k).some
        /\ inflight # <<>>

(* C29: acceptCase by a user who is not the invited user of the case       *)
(* grants nothing, whatever the state of the case: the acceptance does not *)
(* become accepted, the status does not become draft, the participants     *)
(* stay as they are, and the call only succeeds on a case that was         *)
(* accepted already.                                                       *)
C29_AcceptByOthersGrantsNothing ==
    \A c \in DOMAIN cases :
        \A u \in Users \ {cases[c].invited_user_id} :
            LET out == postAccept(Db, now, c, u) IN
            /\ out.db.cases[c].participant_ids = cases[c].participant_ids
            /\ out.db.cases[c].acceptance = "accepted" => cases[c].acceptance = "accepted"
            /\ out.db.cases[c].status = "draft" => cases[c].status = "draft"
            /\ out.result = "ok" => out.db = Db
            /\ cases[c].acceptance = "pending"
                 => out.result \in {"forbidden", "case_expired"}

C29_Witness ==
    \E c \in DOMAIN cases :
        /\ cases[c].acceptance = "pending"
        /\ now <= cases[c].expires_at
        /\ \E u \in Users \ cases[c].participant_ids :
              postAccept(Db, now, c, u).result = "forbidden"
        /\ postAccept(Db, now, c, cases[c].owner_id).result = "forbidden"

====
